---- MODULE Spec2Model ----
(***************************************************************************)
(* Wavelength calibration of extracted ThAr spectra                        *)
(* (twodspec/calibration.py).  Each routine of the module is modelled as   *)
(* a small state machine over the same variables; a routine that is not    *)
(* running leaves its variables at their idle values.                      *)
(*                                                                         *)
(*   SpecFix    thar1d_fix, applied once and then again to its own output  *)
(*   SpecCorr   thar1d_corr2d on a template and a displaced copy of it      *)
(*   SpecFit    fit_grating_equation, the fits abstracted to their residuals*)
(*   SpecPoly   the coefficient array of the surface fit and polyval2d      *)
(*   SpecRefine refine_thar_positions over the orders of a wavelength guess *)
(*   SpecReject polyfit_reject, the fits abstracted to their residuals      *)
(*   SpecCcd    CCD.subtract and CCD.devide (twodspec/ccd.py)                *)
(***************************************************************************)
EXTENDS Integers, Sequences, FiniteSets, TLC

VARIABLES
    pc,          \* position of the running routine
    thar1d,      \* thar1d_fix: the raw spectrum, thar1d[row][pixel]
    conv_len,    \* thar1d_fix: half width of the saturation window
    sat_count,   \* thar1d_fix: saturation level
    fix_out,     \* thar1d_fix(thar1d)
    fix_out2,    \* thar1d_fix(thar1d_fix(thar1d))
    thar_temp,   \* thar1d_corr2d: the reference image
    corr_fixed,  \* thar1d_corr2d: thar1d_fixed, the image whose shift is sought
    true_shift,  \* the displacement <<dx, dy>> corr_fixed was built with
    x_shiftmax,  \* thar1d_corr2d: largest trial shift along the pixel axis
    y_shiftmax,  \* thar1d_corr2d: largest trial shift along the order axis
    corr2d,      \* thar1d_corr2d: the correlation surface
    shift,       \* thar1d_corr2d: the returned shift, or the exception raised
    lc_order,    \* fit_grating_equation: order of each eligible line
    weight,      \* fit_grating_equation: weight of each line, 0 or 1
    weight0,     \* fit_grating_equation: the weights before any rejection
    lc_thar_nan, \* fit_grating_equation: lc_thar[k] (and ml_s[k]) is nan
    n_iter,      \* fit_grating_equation: iteration cap
    nl_eachorder,\* fit_grating_equation: lines to keep in each order
    lar,         \* fit_grating_equation: use the robust loss
    n_loop,      \* fit_grating_equation: iterations started
    fitted_wave_diff, \* fit_grating_equation: residuals of the last fit
    ind_max_dev, \* fit_grating_equation: line rejected by the last pass, or 0
    trace,       \* fit_grating_equation: the fits and rejections done, in order
    poly_order,  \* surface fit: the degree pair <<orderx, ordery>>
    x0_shape,    \* surface fit: shape of the coefficient array x0
    coefs,       \* surface fit: the flat coefficient vector, from index 0
    px,          \* polyval2d: x
    py,          \* polyval2d: y
    z,           \* polyval2d: the value returned
    wave_init,   \* refine_thar_positions: wavelength guess, wave_init[order][pixel]
    thar_list,   \* refine_thar_positions: the catalog, a set of wavelengths
    r_list,      \* refine_thar_positions: r, the results of the orders done
    refined,     \* refine_thar_positions: what the call ends in
    deg,         \* polyfit_reject: degree of the polynomial
    w_,          \* polyfit_reject: weight of each point, 0 or 1
    w_in,        \* polyfit_reject: the weights passed in
    n_reserve,   \* polyfit_reject: points to reserve
    ind_reserved,\* polyfit_reject: the points not dropped
    y_res,       \* polyfit_reject: |y_res| of the last robust fit
    x_,          \* polyfit_reject: abscissa of each point
    ccd_self,    \* CCD: the frame the method is called on, data and info
    ccd1,        \* CCD: the argument frame
    ccd2         \* CCD: the returned frame

fixvars == <<thar1d, conv_len, sat_count, fix_out, fix_out2>>
corrvars == <<thar_temp, corr_fixed, true_shift, x_shiftmax, y_shiftmax,
              corr2d, shift>>
fitvars == <<lc_order, weight, weight0, lc_thar_nan, n_iter, nl_eachorder,
             lar, n_loop, fitted_wave_diff, ind_max_dev, trace>>
polyvars == <<poly_order, x0_shape, coefs, px, py, z>>
refvars == <<wave_init, thar_list, r_list, refined>>
rejvars == <<deg, w_, w_in, n_reserve, ind_reserved, y_res, x_>>
ccdvars == <<ccd_self, ccd1, ccd2>>
vars == <<pc, fixvars, corrvars, fitvars, polyvars, refvars, rejvars, ccdvars>>

\* The value of a variable its routine has not assigned yet.
None == "None"

FixIdle ==
    /\ thar1d = None /\ conv_len = None /\ sat_count = None
    /\ fix_out = None /\ fix_out2 = None

CorrIdle ==
    /\ thar_temp = None /\ corr_fixed = None /\ true_shift = None
    /\ x_shiftmax = None /\ y_shiftmax = None
    /\ corr2d = None /\ shift = None

FitIdle ==
    /\ lc_order = None /\ weight = None /\ weight0 = None
    /\ lc_thar_nan = None /\ n_iter = None /\ nl_eachorder = None
    /\ lar = None /\ n_loop = None /\ fitted_wave_diff = None
    /\ ind_max_dev = None /\ trace = None

PolyIdle ==
    /\ poly_order = None /\ x0_shape = None /\ coefs = None
    /\ px = None /\ py = None /\ z = None

RefIdle ==
    /\ wave_init = None /\ thar_list = None /\ r_list = None /\ refined = None

RejIdle ==
    /\ deg = None /\ w_ = None /\ w_in = None /\ n_reserve = None
    /\ ind_reserved = None /\ y_res = None /\ x_ = None

CcdIdle ==
    /\ ccd_self = None /\ ccd1 = None /\ ccd2 = None

(***************************************************************************)
(* numpy helpers                                                           *)
(***************************************************************************)

\* One bound of a basic slice on an axis of length n, as numpy normalises
\* it: a negative bound counts from the end, and the result is clipped to
\* 0..n.
SliceBound(i, n) ==
    IF i < 0 THEN (IF i + n < 0 THEN 0 ELSE i + n)
    ELSE IF i > n THEN n ELSE i

\* The indices a[lo:hi] selects on an axis of length n, in increasing order.
SliceIdx(lo, hi, n) ==
    LET a == SliceBound(lo, n)
        b == SliceBound(hi, n)
    IN  IF a < b THEN [k \in 1..(b - a) |-> a + k - 1] ELSE <<>>

SeqRange(s) == {s[k] : k \in 1..Len(s)}

\* The sum of f over the set S.
RECURSIVE SumOver(_, _)
SumOver(f, S) ==
    IF S = {} THEN 0
    ELSE LET e == CHOOSE x \in S : TRUE IN f[e] + SumOver(f, S \ {e})

NumRows(img) == Cardinality(DOMAIN img)
NumCols(img) == Cardinality(DOMAIN img[0])

(***************************************************************************)
(* thar1d_fix                                                              *)
(***************************************************************************)

\* Bounds of the spectra fed to thar1d_fix.
FixRows == 2
FixCols == 3
MaxConv == 2
MaxCount == 2

FixCounts == {-1} \cup (1..MaxCount)
FixSpectra == [0..(FixRows - 1) -> [0..(FixCols - 1) -> FixCounts]]

\* ind_sat = thar1d >= sat_count
ind_sat(img, sat) ==
    [r \in DOMAIN img |-> [c \in DOMAIN img[r] |-> img[r][c] >= sat]]

\* The pixels of row r that the assignment
\*   ind_sat_conv[x_sat[i], y_sat[i] - conv_len:y_sat[i] + conv_len] = 1
\* sets for a saturated pixel y of that row.
SatWindow(y, conv, n) == SeqRange(SliceIdx(y - conv, y + conv, n))

ind_sat_conv(img, conv, sat) ==
    [r \in DOMAIN img |->
        [c \in DOMAIN img[r] |->
            \E y \in DOMAIN img[r] :
                /\ ind_sat(img, sat)[r][y]
                /\ c \in SatWindow(y, conv, NumCols(img))]]

\* ind_neg = thar1d < 0.
ind_neg(img) ==
    [r \in DOMAIN img |-> [c \in DOMAIN img[r] |-> img[r][c] < 0]]

thar1d_fix(img, conv, sat) ==
    LET ind_bad == [r \in DOMAIN img |-> [c \in DOMAIN img[r] |->
                       ind_neg(img)[r][c] \/ ind_sat_conv(img, conv, sat)[r][c]]]
    IN  [r \in DOMAIN img |-> [c \in DOMAIN img[r] |->
            IF ind_bad[r][c] THEN 0 ELSE img[r][c]]]

FixInit ==
    /\ pc = "fix"
    /\ thar1d \in FixSpectra
    /\ conv_len \in 1..MaxConv
    /\ sat_count \in {0, MaxCount}
    /\ fix_out = None
    /\ fix_out2 = None
    /\ CorrIdle
    /\ FitIdle
    /\ PolyIdle
    /\ RefIdle
    /\ RejIdle
    /\ CcdIdle

FixOnce ==
    /\ pc = "fix"
    /\ fix_out' = thar1d_fix(thar1d, conv_len, sat_count)
    /\ pc' = "fixed"
    /\ UNCHANGED <<thar1d, conv_len, sat_count, fix_out2, corrvars, fitvars, polyvars, refvars, rejvars, ccdvars>>

FixAgain ==
    /\ pc = "fixed"
    /\ fix_out2' = thar1d_fix(fix_out, conv_len, sat_count)
    /\ pc' = "refixed"
    /\ UNCHANGED <<thar1d, conv_len, sat_count, fix_out, corrvars, fitvars, polyvars, refvars, rejvars, ccdvars>>

FixNext == FixOnce \/ FixAgain

SpecFix == FixInit /\ [][FixNext]_vars

(***************************************************************************)
(* Claims about thar1d_fix                                                 *)
(***************************************************************************)

\* The window of width 2*conv around pixel y, clipped to a row of n pixels.
ClippedWindow(y, conv, n) ==
    {c \in 0..(n - 1) : y - conv <= c /\ c < y + conv}

\* The mask thar1d_fix is to zero: saturated samples, the clipped window
\* around each of them within its row, and strictly negative samples.
InFixMask(img, conv, sat, r, c) ==
    \/ img[r][c] >= sat
    \/ img[r][c] < 0
    \/ \E y \in DOMAIN img[r] :
          img[r][y] >= sat /\ c \in ClippedWindow(y, conv, NumCols(img))

\* C3: after thar1d_fix every saturated sample, every sample of the clipped
\* window of width 2*conv_len around a saturated sample of its row and every
\* negative sample is zero, wherever the saturated sample lies in the row,
\* and every other sample is unchanged.
C3_FixZeroesExactlyTheMask ==
    pc \in {"fixed", "refixed"} =>
        \A r \in DOMAIN thar1d : \A c \in DOMAIN thar1d[r] :
            fix_out[r][c] =
                IF InFixMask(thar1d, conv_len, sat_count, r, c)
                THEN 0 ELSE thar1d[r][c]

\* C4: thar1d_fix is idempotent: applied to its own output with the same
\* conv_len and sat_count it returns that output sample for sample.
C4_FixIdempotent ==
    pc = "refixed" => fix_out2 = fix_out

(***************************************************************************)
(* thar1d_corr2d                                                           *)
(***************************************************************************)

\* Bounds of the images fed to thar1d_corr2d: their shape, the largest
\* shift maximum tried and the number of non-zero samples of a template.
CorrRows == 5
CorrCols == 5
MaxShift == 2

\* (n * np.array([.2, .8])).astype(int); the float products truncate to
\* these integers for every n up to 2000.
Trim(n) == <<(n * 2) \div 10, (n * 8) \div 10>>

\* The length numpy broadcasts two axis lengths to, -1 when it cannot.
Broadcast(a, b) ==
    IF a = b THEN a ELSE IF a = 1 THEN b ELSE IF b = 1 THEN a ELSE -1

\* The index of a broadcast axis: an axis of length 1 is repeated.
Pick(idx, i) == IF Len(idx) = 1 THEN idx[1] ELSE idx[i]

RECURSIVE SumTo(_, _)
SumTo(f, n) == IF n = 0 THEN 0 ELSE f[n] + SumTo(f, n - 1)

\* np.mean(thar1d_fixed[yslice, xslice] * thar_temp[yslice_temp, xslice_temp])
\* for one trial offset: the mean as the pair sum, cnt; "nan" for the mean
\* of an empty product; ValueError when the windows do not broadcast.
WindowMean(fixed, temp, xofst, yofst) ==
    LET xtrim == Trim(NumCols(fixed))
        ytrim == Trim(NumRows(fixed))
        xs == SliceIdx(xtrim[1] + xofst, xtrim[2] + xofst, NumCols(fixed))
        ys == SliceIdx(ytrim[1] + yofst, ytrim[2] + yofst, NumRows(fixed))
        xt == SliceIdx(xtrim[1], xtrim[2], NumCols(temp))
        yt == SliceIdx(ytrim[1], ytrim[2], NumRows(temp))
        nr == Broadcast(Len(ys), Len(yt))
        nc == Broadcast(Len(xs), Len(xt))
        prod == [k \in 1..(nr * nc) |->
                    LET i == ((k - 1) \div nc) + 1
                        j == ((k - 1) % nc) + 1
                    IN  fixed[Pick(ys, i)][Pick(xs, j)]
                            * temp[Pick(yt, i)][Pick(xt, j)]]
    IN  IF nr = -1 \/ nc = -1 THEN [kind |-> "ValueError"]
        ELSE IF nr * nc = 0 THEN [kind |-> "nan"]
        ELSE [kind |-> "num", sum |-> SumTo(prod, nr * nc), cnt |-> nr * nc]

\* corr2d[yofst + y_shiftmax, xofst + x_shiftmax] for every trial offset.
Corr2d(fixed, temp, xmax, ymax) ==
    [y \in 0..(2 * ymax) |-> [x \in 0..(2 * xmax) |->
        WindowMean(fixed, temp, x - xmax, y - ymax)]]

\* a <= b for two means.
MeanLeq(a, b) == a.sum * b.cnt <= b.sum * a.cnt

\* np.where(corr2d == np.max(corr2d)): the cells <<y_, x_>> holding the
\* maximum; none when a cell is nan, since nan equals nothing.
ArgMaxCells(c) ==
    LET cells == {yx \in (DOMAIN c) \X (DOMAIN c[0]) : TRUE}
    IN  IF \E yx \in cells : c[yx[1]][yx[2]].kind = "nan" THEN {}
        ELSE {yx \in cells :
                 \A o \in cells : MeanLeq(c[o[1]][o[2]], c[yx[1]][yx[2]])}

\* The shift computed without the reversal of sign.
ShiftOfNoReverse(m, cell) == cell - m

\* x_shift = np.int(x_shiftmax - x_)  # reverse sign
ShiftOf(m, cell) == m - cell

\* The shift thar1d_corr2d returns. np.int of an array that does not hold
\* exactly one element raises TypeError (np.int is the builtin int).
SelectShift(c, xmax, ymax) ==
    LET cells == ArgMaxCells(c)
    IN  IF Cardinality(cells) = 1
        THEN LET yx == CHOOSE q \in cells : TRUE
             IN  [kind |-> "ok", x |-> ShiftOf(xmax, yx[2]),
                                 y |-> ShiftOf(ymax, yx[1])]
        ELSE [kind |-> "TypeError"]

thar1d_corr2d(fixed, temp, xmax, ymax) ==
    LET c == Corr2d(fixed, temp, xmax, ymax)
    IN  IF \E y \in DOMAIN c : \E x \in DOMAIN c[y] : c[y][x].kind = "ValueError"
        THEN [shift |-> [kind |-> "ValueError"], corr2d |-> None]
        ELSE [shift |-> SelectShift(c, xmax, ymax), corr2d |-> c]

CorrCells == (0..(CorrRows - 1)) \X (0..(CorrCols - 1))

\* An image that is zero but for the samples of peaks.
Image(peaks) ==
    [r \in 0..(CorrRows - 1) |-> [c \in 0..(CorrCols - 1) |->
        IF <<r, c>> \in DOMAIN peaks THEN peaks[<<r, c>>] ELSE 0]]

\* The templates tried: all-zero, one sample, or two samples that are
\* neighbours along a row or a column, each sample 1..MaxCount.
Neighbours(p) ==
    {n \in CorrCells : \/ n[1] = p[1] /\ n[2] = p[2] + 1
                       \/ n[2] = p[2] /\ n[1] = p[1] + 1}

PeakSets ==
    {{}} \cup {{p} : p \in CorrCells}
         \cup UNION {{{p, q} : q \in Neighbours(p)} : p \in CorrCells}

Templates ==
    UNION {{Image(pk) : pk \in [ps -> 1..MaxCount]} : ps \in PeakSets}

\* fixed[r, c] = template[r + dy, c + dx], zero where the template has no
\* such sample.
Displaced(temp, dx, dy) ==
    [r \in DOMAIN temp |-> [c \in DOMAIN temp[r] |->
        IF r + dy \in DOMAIN temp /\ c + dx \in DOMAIN temp[r]
        THEN temp[r + dy][c + dx] ELSE 0]]

CorrInit ==
    /\ pc = "corr"
    /\ thar_temp \in Templates
    /\ x_shiftmax \in 0..MaxShift
    /\ y_shiftmax \in 0..MaxShift
    /\ true_shift \in ((-1)..1) \X ((-1)..1)
    /\ true_shift[1] \in (-x_shiftmax)..x_shiftmax
    /\ true_shift[2] \in (-y_shiftmax)..y_shiftmax
    /\ corr_fixed = Displaced(thar_temp, true_shift[1], true_shift[2])
    /\ corr2d = None
    /\ shift = None
    /\ FixIdle
    /\ FitIdle
    /\ PolyIdle
    /\ RefIdle
    /\ RejIdle
    /\ CcdIdle

Correlate ==
    /\ pc = "corr"
    /\ LET r == thar1d_corr2d(corr_fixed, thar_temp, x_shiftmax, y_shiftmax)
       IN  /\ shift' = r.shift
           /\ corr2d' = r.corr2d
    /\ pc' = "corr_done"
    /\ UNCHANGED <<thar_temp, corr_fixed, true_shift, x_shiftmax, y_shiftmax,
                   fixvars, fitvars, polyvars, refvars, rejvars, ccdvars>>

CorrNext == Correlate

SpecCorr == CorrInit /\ [][CorrNext]_vars

(***************************************************************************)
(* Claims about thar1d_corr2d                                              *)
(***************************************************************************)

Returned(x, y) == [kind |-> "ok", x |-> x, y |-> y]

\* The central 20%-80% window of the template, as index sets.
WinRows == {r \in DOMAIN thar_temp :
              Trim(CorrRows)[1] <= r /\ r < Trim(CorrRows)[2]}
WinCols == {c \in DOMAIN thar_temp[0] :
              Trim(CorrCols)[1] <= c /\ c < Trim(CorrCols)[2]}

\* Every trial window of the fixed image lies inside the image.
WindowsInside ==
    /\ Trim(CorrRows)[1] - y_shiftmax >= 0
    /\ Trim(CorrRows)[2] + y_shiftmax <= CorrRows
    /\ Trim(CorrCols)[1] - x_shiftmax >= 0
    /\ Trim(CorrCols)[2] + x_shiftmax <= CorrCols

\* The sum of products of the template's window with the fixed image's
\* window moved by <<xo, yo>>.
Overlap(xo, yo) ==
    SumOver([rc \in WinRows \X WinCols |->
                corr_fixed[rc[1] + yo][rc[2] + xo] * thar_temp[rc[1]][rc[2]]],
            WinRows \X WinCols)

Offsets == ((-x_shiftmax)..x_shiftmax) \X ((-y_shiftmax)..y_shiftmax)

\* The windows overlap strictly more at the offset that undoes the
\* displacement than at any other trial offset.
AlignedDominates ==
    \A o \in Offsets :
        o # <<-true_shift[1], -true_shift[2]>> =>
            Overlap(o[1], o[2]) < Overlap(-true_shift[1], -true_shift[2])

\* C2 (as claimed, for the calls that return a shift): for any template and
\* its copy displaced by <<dx, dy>> within the search range the returned
\* shift is exactly <<dx, dy>>.
C2_RecoversShiftOfAnyTemplate ==
    (pc = "corr_done" /\ shift.kind = "ok") =>
        shift = Returned(true_shift[1], true_shift[2])

\* C2 (amended): when every trial window lies inside the fixed image and
\* the windows overlap strictly more at the aligning offset than at any
\* other, the returned shift is exactly <<dx, dy>> and the only maximum of
\* the surface is the cell <<y_shiftmax - dy, x_shiftmax - dx>>, the centre
\* cell for a template correlated with itself.
C2_RecoversShiftWhenAlignedDominates ==
    (pc = "corr_done" /\ WindowsInside /\ AlignedDominates) =>
        /\ shift = Returned(true_shift[1], true_shift[2])
        /\ ArgMaxCells(corr2d) =
              {<<y_shiftmax - true_shift[2], x_shiftmax - true_shift[1]>>}

C2_Witness ==
    /\ pc = "corr_done"
    /\ WindowsInside
    /\ AlignedDominates
    /\ true_shift = <<1, -1>>
    /\ shift = Returned(1, -1)

\* The first cell of a set of cells in row-major scan order.
FirstRowMajor(cells) ==
    CHOOSE a \in cells :
        \A b \in cells : a[1] < b[1] \/ (a[1] = b[1] /\ a[2] <= b[2])

\* C9: when the surface has its maximum at more than one cell the call
\* still returns one shift, that of the first maximal cell in row-major
\* order.
C9_TieTakesFirstMaximum ==
    (pc = "corr_done" /\ shift.kind # "ValueError"
                      /\ Cardinality(ArgMaxCells(corr2d)) > 1) =>
        LET yx == FirstRowMajor(ArgMaxCells(corr2d))
        IN  shift = Returned(x_shiftmax - yx[2], y_shiftmax - yx[1])

\* The indices lo, lo + 1, .. hi - 1 as a sequence.
Span(lo, hi) == [k \in 1..(hi - lo) |-> lo + k - 1]

\* The rows and columns thar1d_fixed[yslice, xslice] selects for a trial
\* offset.
TrialRows(yo) ==
    SliceIdx(Trim(CorrRows)[1] + yo, Trim(CorrRows)[2] + yo, CorrRows)
TrialCols(xo) ==
    SliceIdx(Trim(CorrCols)[1] + xo, Trim(CorrCols)[2] + xo, CorrCols)

\* C14: for every trial offset the window of the fixed image is exactly
\* rows ytrim0+yofst .. ytrim1+yofst-1 and columns xtrim0+xofst ..
\* xtrim1+xofst-1, all of them indices of the image, so it has the shape of
\* the template's window and every cell of the surface is the mean of that
\* many products.
C14_TrialWindowsInsideAndEqual ==
    pc = "corr_done" =>
        \A o \in Offsets :
            /\ Trim(CorrCols)[1] + o[1] >= 0
            /\ Trim(CorrCols)[2] + o[1] <= CorrCols
            /\ Trim(CorrRows)[1] + o[2] >= 0
            /\ Trim(CorrRows)[2] + o[2] <= CorrRows
            /\ TrialCols(o[1]) =
                  Span(Trim(CorrCols)[1] + o[1], Trim(CorrCols)[2] + o[1])
            /\ TrialRows(o[2]) =
                  Span(Trim(CorrRows)[1] + o[2], Trim(CorrRows)[2] + o[2])
            /\ Len(TrialCols(o[1])) = Cardinality(WinCols)
            /\ Len(TrialRows(o[2])) = Cardinality(WinRows)
            /\ IF shift.kind = "ValueError" THEN FALSE
               ELSE LET cell == corr2d[o[2] + y_shiftmax][o[1] + x_shiftmax]
                    IN  /\ cell.kind = "num"
                        /\ cell.cnt = Cardinality(WinRows) * Cardinality(WinCols)

(***************************************************************************)
(* fit_grating_equation                                                    *)
(*                                                                         *)
(* The lines are those that passed the pre-filter.  A least-squares fit is *)
(* modelled by its effect on the rejection: the residual fitted_wave_diff  *)
(* of every line whose lc_thar is not nan is any value of DiffValues.  The *)
(* lines span at least two orders, so that standardize(lc_order) is        *)
(* finite.                                                                 *)
(***************************************************************************)

\* Bounds: the number of eligible lines, the largest n_iter, the largest
\* nl_eachorder, and max_dev_threshold.
NLines == 3
MaxIter == 2
MaxKeep == 1
max_dev_threshold == 1

Lines == 1..NLines
FitOrders == {1, 2}
DiffValues == {0, 2, 5}

\* The events of trace.
LSQ == "leastsq(residual)"
LAR == "leastsq(residual_lar)"
REJECT == "reject"
KICK == "kick"

\* The lines whose residual is not nan.
Finite(d, isnan) == {k \in DOMAIN d : ~isnan[k]}

\* The r-th smallest (from 1) of the residuals that are not nan: entry r of
\* the sorted residuals.
RankedFinite(d, isnan, r) ==
    CHOOSE v \in {d[k] : k \in Finite(d, isnan)} :
        /\ Cardinality({k \in Finite(d, isnan) : d[k] < v}) < r
        /\ Cardinality({k \in Finite(d, isnan) : d[k] <= v}) >= r

\* Twice np.nanmedian(fitted_wave_diff); the empty sequence when every
\* residual is nan.
NanMedian2(d, isnan) ==
    LET m == Cardinality(Finite(d, isnan))
    IN  IF m = 0 THEN <<>>
        ELSE IF m % 2 = 1 THEN <<2 * RankedFinite(d, isnan, (m + 1) \div 2)>>
        ELSE <<RankedFinite(d, isnan, m \div 2)
               + RankedFinite(d, isnan, (m \div 2) + 1)>>

Abs(v) == IF v < 0 THEN -v ELSE v

\* Twice wave_dev = np.abs(fitted_wave_diff - np.nanmedian(fitted_wave_diff))
\* of line k; only for a line whose residual is not nan.
WaveDev2(d, isnan, k) == Abs(2 * d[k] - NanMedian2(d, isnan)[1])

\* wave_dev > max_dev_threshold; False for a nan.
ExceedsThreshold(d, isnan, k) ==
    ~isnan[k] /\ WaveDev2(d, isnan, k) > 2 * max_dev_threshold

\* lc_order_s_left: the weighted lines left in the order of line k.
OrderLeft(ord, w, k) ==
    Cardinality({j \in DOMAIN ord : ord[j] = ord[k] /\ w[j] > 0})

\* lc_order_s_left > nl_eachorder
MayLose(left, keep) == left > keep

\* possible_outlier > 0
IsCandidate(d, isnan, ord, w, keep, k) ==
    /\ ExceedsThreshold(d, isnan, k)
    /\ MayLose(OrderLeft(ord, w, k), keep)

Candidates(d, isnan, ord, w, keep) ==
    {k \in DOMAIN d : IsCandidate(d, isnan, ord, w, keep, k)}

\* The first candidate, whatever its deviation.
NanArgFirst(d, isnan, ord, w, keep) ==
    LET c == Candidates(d, isnan, ord, w, keep)
    IN  CHOOSE k \in c : \A j \in c : k <= j

\* np.nanargmax(possible_outlier): the first line of largest deviation.
NanArgMax(d, isnan, ord, w, keep) ==
    LET c == Candidates(d, isnan, ord, w, keep)
    IN  CHOOSE k \in c :
            \A j \in c :
                \/ WaveDev2(d, isnan, j) < WaveDev2(d, isnan, k)
                \/ WaveDev2(d, isnan, j) = WaveDev2(d, isnan, k) /\ k <= j

\* The loss of a fit that follows the lar flag.
LossOf(robust) == IF robust THEN LAR ELSE LSQ

\* A refit after the bulk rejection that follows the lar flag.
KickRefitFollowsLar(robust) == IF robust THEN LAR ELSE LSQ

\* The loss of the refit after the bulk rejection: residual_lar, whatever
\* lar is.
KickRefitLoss(robust) == LAR

\* while n_loop <= n_iter
LoopGuardInclusive(loop, cap) == loop <= cap

\* while n_loop < n_iter
LoopGuard(loop, cap) == loop < cap

\* The residuals a fit can leave: any value for a line that is not nan.
Residuals(isnan) ==
    {d \in [Lines -> DiffValues] :
        \A k \in Lines : isnan[k] => d[k] = 0}

FitInit ==
    /\ pc = "fit_x0"
    /\ lc_order \in {o \in [Lines -> FitOrders] :
                       /\ \A k \in 1..(NLines - 1) : o[k] <= o[k + 1]
                       /\ o[1] # o[NLines]}
    /\ weight0 \in [Lines -> {0, 1}]
    /\ weight = weight0
    /\ lc_thar_nan = [k \in Lines |-> FALSE]
    /\ n_iter \in 0..MaxIter
    /\ nl_eachorder \in 0..MaxKeep
    /\ lar \in BOOLEAN
    /\ n_loop = 0
    /\ fitted_wave_diff = None
    /\ ind_max_dev = 0
    /\ trace = <<>>
    /\ FixIdle
    /\ CorrIdle
    /\ PolyIdle
    /\ RefIdle
    /\ RejIdle
    /\ CcdIdle

fitparams == <<lc_order, weight0, n_iter, nl_eachorder, lar>>

\* x0, ier = leastsq(residual, x0, ...)
FitX0 ==
    /\ pc = "fit_x0"
    /\ trace' = Append(trace, LSQ)
    /\ pc' = IF n_iter > 0 THEN "loop" ELSE "bulk"
    /\ UNCHANGED <<fitparams, weight, lc_thar_nan, n_loop, fitted_wave_diff,
                   ind_max_dev, fixvars, corrvars, polyvars, refvars, rejvars, ccdvars>>

\* One pass of the while loop: fit, then reject the worst candidate or
\* break.
LoopPass ==
    /\ pc = "loop"
    /\ LoopGuard(n_loop, n_iter)
    /\ n_loop' = n_loop + 1
    /\ fitted_wave_diff' \in Residuals(lc_thar_nan)
    /\ IF Candidates(fitted_wave_diff', lc_thar_nan, lc_order, weight,
                     nl_eachorder) # {}
       THEN LET i == NanArgMax(fitted_wave_diff', lc_thar_nan, lc_order,
                               weight, nl_eachorder)
            IN  /\ ind_max_dev' = i
                /\ weight' = [weight EXCEPT ![i] = 0]
                /\ lc_thar_nan' = [lc_thar_nan EXCEPT ![i] = TRUE]
                /\ trace' = trace \o <<LossOf(lar), REJECT>>
                /\ pc' = "loop"
       ELSE /\ ind_max_dev' = 0
            /\ trace' = Append(trace, LossOf(lar))
            /\ pc' = "report"
            /\ UNCHANGED <<weight, lc_thar_nan>>
    /\ UNCHANGED <<fitparams, fixvars, corrvars, polyvars, refvars, rejvars, ccdvars>>

\* The while condition fails.
LoopEnd ==
    /\ pc = "loop"
    /\ ~LoopGuard(n_loop, n_iter)
    /\ pc' = "report"
    /\ UNCHANGED <<fitvars, fixvars, corrvars, polyvars, refvars, rejvars, ccdvars>>

\* n_iter == 0: fit, kick every line over the threshold, refit.
BulkReject ==
    /\ pc = "bulk"
    /\ fitted_wave_diff' \in Residuals(lc_thar_nan)
    /\ LET ind_kick == {k \in Lines :
                          ExceedsThreshold(fitted_wave_diff', lc_thar_nan, k)}
       IN  /\ weight' = [k \in Lines |-> IF k \in ind_kick THEN 0 ELSE weight[k]]
           /\ lc_thar_nan' = [k \in Lines |-> k \in ind_kick \/ lc_thar_nan[k]]
    /\ trace' = trace \o <<LossOf(lar), KICK, KickRefitLoss(lar)>>
    /\ pc' = "report"
    /\ UNCHANGED <<fitparams, n_loop, ind_max_dev, fixvars, corrvars, polyvars, refvars, rejvars, ccdvars>>

\* ind_good_thar, the RMS report and the return.
FitReturn ==
    /\ pc = "report"
    /\ pc' = "fit_done"
    /\ UNCHANGED <<fitvars, fixvars, corrvars, polyvars, refvars, rejvars, ccdvars>>

FitNext == FitX0 \/ LoopPass \/ LoopEnd \/ BulkReject \/ FitReturn

SpecFit == FitInit /\ [][FitNext]_vars

\* The routine is sequential code: a step that can be taken is taken.
FairSpecFit == SpecFit /\ WF_vars(FitNext)

(***************************************************************************)
(* Claims about fit_grating_equation                                       *)
(***************************************************************************)

\* The weighted, non-rejected lines of order o under the weights w.
Weighted(w, o) == Cardinality({k \in Lines : lc_order[k] = o /\ w[k] > 0})

\* How often event e occurs in trace.
Count(e) == Cardinality({i \in DOMAIN trace : trace[i] = e})

\* C1: an order that had at least nl_eachorder weighted lines before the
\* first rejection still has at least nl_eachorder of them when
\* fit_grating_equation returns, for n_iter > 0 and for n_iter == 0.
C1_KeepsMinLinesPerOrder ==
    pc = "fit_done" =>
        \A o \in FitOrders :
            Weighted(weight0, o) >= nl_eachorder =>
                Weighted(weight, o) >= nl_eachorder

\* C5: the rejection loop terminates: it never starts more than n_iter
\* passes, so it rejects at most n_iter lines, a pass that finds no
\* candidate is the last, and the routine returns.
C5_LoopTerminates ==
    /\ [](pc \in {"loop", "report", "fit_done"} =>
             /\ n_loop <= n_iter
             /\ Count(REJECT) <= n_loop)
    /\ [][(pc = "loop" /\ n_loop' # n_loop
             /\ Candidates(fitted_wave_diff', lc_thar_nan, lc_order, weight,
                           nl_eachorder) = {})
          => (pc' = "report" /\ weight' = weight)]_vars
    /\ <>(pc = "fit_done")

\* The cap stops a loop that rejected a line in every pass.
C5_Witness ==
    /\ pc = "fit_done"
    /\ n_iter = MaxIter
    /\ n_loop = n_iter
    /\ Count(REJECT) = n_iter
    /\ ind_max_dev # 0

\* C10 (as claimed): with n_iter == 0 the routine does one robust fit, one
\* bulk rejection and one robust refit, and nothing else.
C10_BulkModeIsRobustKickRobust ==
    (pc = "fit_done" /\ n_iter = 0) => trace = <<LAR, KICK, LAR>>

\* C10 (amended): with n_iter == 0 the routine does, in this order, the
\* initial ordinary least-squares fit, one fit with the robust loss only
\* when lar is set, one bulk rejection of every line whose deviation from
\* the median residual exceeds max_dev_threshold, and one robust refit.
C10_BulkModeSequence ==
    (pc = "fit_done" /\ n_iter = 0) =>
        /\ trace = <<LSQ, LossOf(lar), KICK, LAR>>
        /\ \A k \in Lines :
              /\ lc_thar_nan[k] <=>
                    ExceedsThreshold(fitted_wave_diff,
                                     [j \in Lines |-> FALSE], k)
              /\ weight[k] = IF lc_thar_nan[k] THEN 0 ELSE weight0[k]

C10_Witness ==
    /\ pc = "fit_done"
    /\ n_iter = 0
    /\ ~lar
    /\ trace = <<LSQ, LSQ, KICK, LAR>>
    /\ \E k \in Lines : lc_thar_nan[k]

\* The lines rejected so far: lc_thar[k] is nan.
Rejected == {k \in Lines : lc_thar_nan[k]}

\* Line k deviates from the median of the residuals d by more than
\* max_dev_threshold, and its order has more than nl_eachorder lines of
\* positive weight w.
Outlier(d, isnan, w, k) ==
    /\ ~isnan[k]
    /\ WaveDev2(d, isnan, k) > 2 * max_dev_threshold
    /\ Weighted(w, lc_order[k]) > nl_eachorder

\* C12: a pass of the rejection loop rejects at most one line; the line it
\* rejects is a candidate of largest deviation among the candidates (its
\* weight becomes zero); no line rejected before is a candidate; and the
\* rejected lines grow by exactly one line in a pass that has a candidate,
\* by none in a pass that has none.
C12_RejectsTheSingleWorstCandidate ==
    [][(pc = "loop" /\ n_loop' # n_loop) =>
         LET d == fitted_wave_diff'
             cand == {k \in Lines : Outlier(d, lc_thar_nan, weight, k)}
             new == Rejected' \ Rejected
         IN  /\ Rejected \subseteq Rejected'
             /\ Cardinality(new) <= 1
             /\ cand \cap Rejected = {}
             /\ cand = Candidates(d, lc_thar_nan, lc_order, weight,
                                  nl_eachorder)
             /\ (cand # {}) <=> (Cardinality(new) = 1)
             /\ \A i \in new :
                   /\ i \in cand
                   /\ i = ind_max_dev'
                   /\ weight'[i] = 0
                   /\ \A j \in cand :
                         WaveDev2(d, lc_thar_nan, j)
                            <= WaveDev2(d, lc_thar_nan, i)
             /\ \A k \in Lines \ new : weight'[k] = weight[k]
             /\ Count(REJECT)' = Count(REJECT) + Cardinality(new)
      ]_vars

\* A second rejecting pass had two candidates and rejected one of them; the
\* line rejected by the first pass was not among them.
C12_Witness ==
    /\ pc \in {"loop", "report", "fit_done"}
    /\ Count(REJECT) = 2
    /\ Cardinality(Rejected) = 2
    /\ ind_max_dev \in Rejected
    /\ LET before == [lc_thar_nan EXCEPT ![ind_max_dev] = FALSE]
           wbefore == [weight EXCEPT ![ind_max_dev] = weight0[ind_max_dev]]
       IN  /\ Outlier(fitted_wave_diff, before, wbefore, ind_max_dev)
           /\ \E j \in Lines \ Rejected :
                 Outlier(fitted_wave_diff, before, wbefore, j)

\* The events of trace that are fits.
Fits == {LSQ, LAR}

\* C13: in iterative mode the routine returns the coefficients of a fit made
\* after the last rejection: every rejection in trace is followed by a fit,
\* also when the pass that reaches n_iter rejects a line.
C13_EveryRejectionIsRefitted ==
    (pc = "fit_done" /\ n_iter > 0) =>
        \A i \in DOMAIN trace :
            trace[i] = REJECT =>
                \E j \in DOMAIN trace : j > i /\ trace[j] \in Fits

(***************************************************************************)
(* The coefficient array of fit_grating_equation and polyval2d             *)
(***************************************************************************)

\* Bounds: the largest degree along an axis, and the largest coefficient
\* and coordinate.
MaxDeg == 2
MaxCoef == 1
MaxCoord == 2

RECURSIVE Pow(_, _)
Pow(b, e) == IF e = 0 THEN 1 ELSE b * Pow(b, e - 1)

Max2(a, b) == IF a >= b THEN a ELSE b
Min2(a, b) == IF a <= b THEN a ELSE b

\* The shape of x0 = np.zeros(poly_order).
ZerosShape(orders) == <<orders[1], orders[2]>>

\* ij = itertools.product(range(orderx + 1), range(ordery + 1)): the pair
\* at position a, from 0.
IJ(a, orders) == <<a \div (orders[2] + 1), a % (orders[2] + 1)>>

\* The positions zip(coefs.flatten(), ij) runs over: zip stops at the
\* shorter of the two.
Zipped(ncoef, orders) ==
    0..(Min2(ncoef, (orders[1] + 1) * (orders[2] + 1)) - 1)

\* The terms polyval2d adds: <<a, i, j>> when coefficient a of the flat
\* vector is multiplied with x^i * y^j.
PolyTerms(ncoef, orders) ==
    {<<a, IJ(a, orders)[1], IJ(a, orders)[2]>> : a \in
        {b \in Zipped(ncoef, orders) :
            IJ(b, orders)[1] + IJ(b, orders)[2] < Max2(orders[1], orders[2])}}

polyval2d(x, y, c, orders) ==
    LET terms == PolyTerms(Cardinality(DOMAIN c), orders)
    IN  SumOver([t \in terms |-> c[t[1]] * Pow(x, t[2]) * Pow(y, t[3])], terms)

PolyInit ==
    /\ pc = "poly_x0"
    /\ poly_order \in (1..MaxDeg) \X (1..MaxDeg)
    /\ px \in 1..MaxCoord
    /\ py \in 1..MaxCoord
    /\ x0_shape = None
    /\ coefs = None
    /\ z = None
    /\ FixIdle
    /\ CorrIdle
    /\ FitIdle
    /\ RefIdle
    /\ RejIdle
    /\ CcdIdle

\* x0 = np.zeros(poly_order)
AllocX0 ==
    /\ pc = "poly_x0"
    /\ x0_shape' = ZerosShape(poly_order)
    /\ coefs' = [a \in 0..(ZerosShape(poly_order)[1] * ZerosShape(poly_order)[2] - 1) |-> 0]
    /\ pc' = "poly_fit"
    /\ UNCHANGED <<poly_order, px, py, z, fixvars, corrvars, fitvars, refvars, rejvars, ccdvars>>

\* leastsq returns some coefficient vector of the length of x0.flatten().
LeastSq ==
    /\ pc = "poly_fit"
    /\ coefs' \in [DOMAIN coefs -> 0..MaxCoef]
    /\ pc' = "poly_eval"
    /\ UNCHANGED <<poly_order, x0_shape, px, py, z, fixvars, corrvars, fitvars, refvars, rejvars, ccdvars>>

\* fitted = polyval2d(lc_coord_s, lc_order_s, x_mini_lsq, poly_order)
EvalSurface ==
    /\ pc = "poly_eval"
    /\ z' = polyval2d(px, py, coefs, poly_order)
    /\ pc' = "poly_done"
    /\ UNCHANGED <<poly_order, x0_shape, coefs, px, py, fixvars, corrvars, fitvars, refvars, rejvars, ccdvars>>

PolyNext == AllocX0 \/ LeastSq \/ EvalSurface

SpecPoly == PolyInit /\ [][PolyNext]_vars

(***************************************************************************)
(* Claims about the coefficient array                                      *)
(***************************************************************************)

\* The index pairs of the truncated polynomial.
ActivePairs(orders) ==
    {ij \in (0..orders[1]) \X (0..orders[2]) :
        ij[1] + ij[2] < Max2(orders[1], orders[2])}

\* The flat position of matrix position <<i, j>> in an array of shape shp.
FlatIndex(shp, i, j) == i * shp[2] + j

\* C6: the coefficient array has shape <<orderx + 1, ordery + 1>>, and
\* polyval2d multiplies the coefficient at matrix position <<i, j>> with
\* x^i * y^j for exactly the pairs with i <= orderx, j <= ordery and
\* i + j < max(orderx, ordery): its value is the sum of those terms.
C6_CoefficientsPairWithTheirPowers ==
    pc = "poly_done" =>
        /\ x0_shape = <<poly_order[1] + 1, poly_order[2] + 1>>
        /\ PolyTerms(Cardinality(DOMAIN coefs), poly_order) =
              {<<FlatIndex(x0_shape, ij[1], ij[2]), ij[1], ij[2]>> :
                  ij \in ActivePairs(poly_order)}
        /\ z = SumOver([ij \in ActivePairs(poly_order) |->
                           coefs[FlatIndex(x0_shape, ij[1], ij[2])]
                               * Pow(px, ij[1]) * Pow(py, ij[2])],
                       ActivePairs(poly_order))

(***************************************************************************)
(* refine_thar_positions and refine_thar_positions_order                   *)
(*                                                                         *)
(* curve_fit either converges or raises RuntimeError, which the routine    *)
(* catches; splrep and splev are taken to succeed.                         *)
(***************************************************************************)

\* Bounds: the orders and pixels of the guess and its largest wavelength.
NOrders == 2
NPix == 3
MaxWave == 4

\* np.all(np.diff(this_wave_init) >= 0)
NonDecreasing(w) == \A i \in 1..(Len(w) - 1) : w[i + 1] - w[i] >= 0

\* np.all(np.diff(this_wave_init) <= 0)
NonIncreasing(w) == \A i \in 1..(Len(w) - 1) : w[i + 1] - w[i] <= 0

SeqMin(w) == CHOOSE v \in SeqRange(w) : \A u \in SeqRange(w) : v <= u
SeqMax(w) == CHOOSE v \in SeqRange(w) : \A u \in SeqRange(w) : v >= u

\* thar_list[(thar_list > np.min(wave_init[i_order]) + 1.) *
\*           (thar_list < np.max(wave_init[i_order]) - 1.)]
InRange(cat, w) == {l \in cat : l > SeqMin(w) + 1 /\ l < SeqMax(w) - 1}

\* The outcomes of the curve_fit calls of an order with n lines: for each
\* line "popt" when the fit converged and "nan" when it raised
\* RuntimeError.
FitOutcomes(n) == [1..n -> {"popt", "nan"}]

\* What refine_thar_positions_order ends in for the guess w and the lines
\* this_thar_list of its order.
refine_thar_positions_order(w, this_thar_list, popt_list) ==
    IF Cardinality(this_thar_list) = 0 THEN [kind |-> "None"]
    ELSE IF NonDecreasing(w) \/ NonIncreasing(w)
         THEN [kind |-> "lines", popt_list |-> popt_list]
         ELSE [kind |-> "ValueError"]

\* The end of refine_thar_positions: an exception of a worker is raised
\* again by Parallel; np.hstack of an empty list raises ValueError.
Collect(results) ==
    LET kept == {i \in DOMAIN results : results[i].kind # "None"}
    IN  IF \E i \in DOMAIN results : results[i].kind = "ValueError"
        THEN [kind |-> "ValueError", by |-> "refine_thar_positions_order"]
        ELSE IF kept = {}
        THEN [kind |-> "ValueError", by |-> "np.hstack"]
        ELSE [kind |-> "ok", orders |-> kept]

RefInit ==
    /\ pc = "refine"
    /\ wave_init \in [1..NOrders -> [1..NPix -> 0..MaxWave]]
    /\ thar_list \in SUBSET (2..(MaxWave - 2))
    /\ r_list = <<>>
    /\ refined = None
    /\ FixIdle
    /\ CorrIdle
    /\ FitIdle
    /\ PolyIdle
    /\ RejIdle
    /\ CcdIdle

\* The job of the next order.
RefineOrder ==
    /\ pc = "refine"
    /\ Len(r_list) < NOrders
    /\ LET i_order == Len(r_list) + 1
           lines == InRange(thar_list, wave_init[i_order])
       IN  \E popt_list \in FitOutcomes(Cardinality(lines)) :
               r_list' = Append(r_list, refine_thar_positions_order(
                                  wave_init[i_order], lines, popt_list))
    /\ UNCHANGED <<pc, wave_init, thar_list, refined,
                   fixvars, corrvars, fitvars, polyvars, rejvars, ccdvars>>

\* All jobs are done: drop the None results and stack the rest.
CollectResults ==
    /\ pc = "refine"
    /\ Len(r_list) = NOrders
    /\ refined' = Collect(r_list)
    /\ pc' = "refine_done"
    /\ UNCHANGED <<wave_init, thar_list, r_list,
                   fixvars, corrvars, fitvars, polyvars, rejvars, ccdvars>>

RefNext == RefineOrder \/ CollectResults

SpecRefine == RefInit /\ [][RefNext]_vars

(***************************************************************************)
(* Claims about refine_thar_positions                                      *)
(***************************************************************************)

Monotonic(w) == NonDecreasing(w) \/ NonIncreasing(w)

\* C7: an order whose guess is neither non-decreasing nor non-increasing
\* ends in an error that reaches the caller, however many catalog lines
\* lie in its range; a monotonic guess never ends in that error; and an
\* order with a monotonic guess and no line in range is skipped.
C7_NonMonotonicOrderIsAnError ==
    /\ \A i \in 1..NOrders :
          (pc \in {"refine", "refine_done"} /\ i <= Len(r_list)) =>
              /\ ~Monotonic(wave_init[i]) => r_list[i].kind = "ValueError"
              /\ Monotonic(wave_init[i]) => r_list[i].kind # "ValueError"
              /\ (Monotonic(wave_init[i])
                    /\ InRange(thar_list, wave_init[i]) = {})
                 => r_list[i].kind = "None"
    /\ (pc = "refine_done" /\ \E i \in 1..NOrders : ~Monotonic(wave_init[i]))
          => refined.kind = "ValueError"

(***************************************************************************)
(* polyfit_reject                                                          *)
(*                                                                         *)
(* A robust fit is modelled by the residuals it leaves: |y_res| of every   *)
(* point of positive weight is any value of ResValues, and y_res of a      *)
(* point whose weight is not positive is nan.  leastsq raises TypeError    *)
(* when it is given fewer points than coefficients.                        *)
(***************************************************************************)

\* Bounds: the number of points, the largest n_reserve, the largest degree
\* and the rejection threshold epsilon.
NPts == 3
MaxReserve == 2
MaxPolyDeg == 1
epsilon == 1

Pts == 1..NPts
ResValues == {0, 2, 3}
XValues == {0, 1}

\* np.sum(ind_reserved)
NumReserved(res) == Cardinality({i \in Pts : res[i]})

\* A loop that goes on while the reserved points are not fewer than
\* n_reserve.
ReserveGuardInclusive(count, reserve) == count >= reserve

\* while np.sum(ind_reserved) > n_reserve
ReserveGuard(count, reserve) == count > reserve

\* y_res = np.where(w_ > 0, y_res, np.nan): the points whose residual is
\* a number.
HasResidual(wt, i) == wt[i] > 0

\* ind_bad = np.abs(y_res) > epsilon
ind_bad(res_abs, wt, i) == HasResidual(wt, i) /\ res_abs[i] > epsilon

\* np.nanargmax(np.abs(y_res)): the first point of largest residual.
NanArgMaxRes(res_abs, wt) ==
    CHOOSE i \in Pts :
        /\ HasResidual(wt, i)
        /\ \A j \in Pts : HasResidual(wt, j) =>
              \/ res_abs[j] < res_abs[i]
              \/ res_abs[j] = res_abs[i] /\ i <= j

\* The residuals a robust fit can leave under the weights wt.
FitResiduals(wt) ==
    {d \in [Pts -> ResValues \cup {0}] :
        \A i \in Pts : ~HasResidual(wt, i) => d[i] = 0}

RejInit ==
    /\ pc = "rej_loop"
    /\ deg \in 0..MaxPolyDeg
    /\ w_in \in [Pts -> {0, 1}]
    /\ w_ = w_in
    /\ n_reserve \in (-1)..MaxReserve
    /\ ind_reserved = [i \in Pts |-> TRUE]
    /\ y_res = [i \in Pts |-> 0]
    /\ x_ \in [Pts -> XValues]
    /\ FixIdle
    /\ CorrIdle
    /\ FitIdle
    /\ PolyIdle
    /\ RefIdle
    /\ CcdIdle

\* One pass of the while loop: the robust fit, then drop the point of
\* largest residual or break.
RejectPass ==
    /\ pc = "rej_loop"
    /\ ReserveGuard(NumReserved(ind_reserved), n_reserve)
    /\ IF NumReserved(ind_reserved) < deg + 1
       THEN /\ pc' = "rej_error"
            /\ UNCHANGED <<w_, ind_reserved, y_res>>
       ELSE \E d \in FitResiduals(w_) :
               /\ y_res' = d
               /\ IF \E i \in Pts : ind_reserved[i] /\ ind_bad(d, w_, i)
                  THEN LET i_rejected == NanArgMaxRes(d, w_)
                       IN  /\ ind_reserved' = [ind_reserved EXCEPT ![i_rejected] = FALSE]
                           /\ w_' = [w_ EXCEPT ![i_rejected] = 0]
                           /\ pc' = "rej_loop"
                  ELSE /\ pc' = "rej_polyfit"
                       /\ UNCHANGED <<w_, ind_reserved>>
    /\ UNCHANGED <<deg, w_in, n_reserve, x_,
                   fixvars, corrvars, fitvars, polyvars, refvars, ccdvars>>

\* The while condition fails.
RejectEnd ==
    /\ pc = "rej_loop"
    /\ ~ReserveGuard(NumReserved(ind_reserved), n_reserve)
    /\ pc' = "rej_polyfit"
    /\ UNCHANGED <<rejvars, fixvars, corrvars, fitvars, polyvars, refvars, ccdvars>>

\* The ways np.polyfit(x_[ind_reserved], y_[ind_reserved], deg,
\* w=w_[ind_reserved]) can end.  With no point reserved it raises TypeError
\* (expected non-empty vector for x).  It scales every column w * x^k
\* (k = 0..deg) of the weighted Vandermonde matrix by its norm: a column
\* that is all zero (every reserved weight zero, or for k > 0 every
\* reserved point of positive weight at x = 0) becomes nan, and lstsq then
\* either raises LinAlgError or returns nan coefficients, depending on the
\* LAPACK build.  Otherwise it returns, with a RankWarning when the matrix
\* is rank deficient.
PolyfitOutcomes(res, wt, xs, d) ==
    IF NumReserved(res) = 0 THEN {"rej_error"}
    ELSE IF \E k \in 0..d :
               \A i \in Pts : res[i] => wt[i] * Pow(xs[i], k) = 0
         THEN {"rej_error", "rej_done"}
    ELSE {"rej_done"}

\* p = np.polyfit(...); return p, w_ > 0
RejectReturn ==
    /\ pc = "rej_polyfit"
    /\ pc' \in PolyfitOutcomes(ind_reserved, w_, x_, deg)
    /\ UNCHANGED <<rejvars, fixvars, corrvars, fitvars, polyvars, refvars, ccdvars>>

RejNext == RejectPass \/ RejectEnd \/ RejectReturn

SpecReject == RejInit /\ [][RejNext]_vars

(***************************************************************************)
(* Claims about polyfit_reject                                             *)
(***************************************************************************)

\* The mask polyfit_reject returns: w_ > 0.
ReturnedMask == [i \in Pts |-> w_[i] > 0]

\* C8: polyfit_reject returns only when no retained point's residual under
\* the last robust fit exceeds epsilon, or when the count of retained
\* points, np.sum(ind_reserved), has come down to n_reserve; that count is
\* never below n_reserve when the input had at least n_reserve points; and
\* every point of the returned mask was never dropped.
C8_StopsConvergedOrAtReserve ==
    pc = "rej_done" =>
        /\ \/ \A i \in Pts : ind_reserved[i] => ~ind_bad(y_res, w_, i)
           \/ NumReserved(ind_reserved) <= n_reserve
        /\ NPts >= n_reserve => NumReserved(ind_reserved) >= n_reserve
        /\ \A i \in Pts : ReturnedMask[i] => ind_reserved[i]

\* With every weight positive, the loop was stopped by the reserve while
\* a retained point still exceeded epsilon.
C8_Witness ==
    /\ pc = "rej_done"
    /\ \A i \in Pts : w_in[i] > 0
    /\ n_reserve > 0
    /\ NumReserved(ind_reserved) = n_reserve
    /\ NumReserved(ind_reserved) < NPts
    /\ \E i \in Pts : ReturnedMask[i]
    /\ \E i \in Pts : ind_reserved[i] /\ ind_bad(y_res, w_, i)

(***************************************************************************)
(* CCD.subtract and CCD.devide (twodspec/ccd.py)                           *)
(*                                                                         *)
(* A frame is a record of its pixel data (float64, here the integers of a  *)
(* small range) and its info, the attributes of extr_attr_list.  A pixel   *)
(* of a result is a float: a reduced fraction, or inf, -inf or nan.        *)
(***************************************************************************)

CcdPix == 2
MaxPix == 2

Pixels == 1..CcdPix
PixValues == (-1)..MaxPix
Gains == {1, 2}

\* The float of an integer.
Num(v) == [kind |-> "num", num |-> v, den |-> 1]

\* The largest common divisor of two integers that are not both zero.
Gcd(a, b) ==
    CHOOSE g \in 1..Max2(Abs(a), Abs(b)) :
        /\ a % g = 0 /\ b % g = 0
        /\ \A h \in 1..Max2(Abs(a), Abs(b)) :
               (a % h = 0 /\ b % h = 0) => h <= g

\* a / b in float64 (true division): x/0 is inf, -inf or nan.
FloatDiv(a, b) ==
    IF b = 0
    THEN IF a > 0 THEN [kind |-> "inf", num |-> 1, den |-> 0]
         ELSE IF a < 0 THEN [kind |-> "inf", num |-> -1, den |-> 0]
         ELSE [kind |-> "nan", num |-> 0, den |-> 0]
    ELSE LET g == Gcd(a, b)
             sgn == IF b < 0 THEN -1 ELSE 1
         IN  [kind |-> "num", num |-> (sgn * a) \div g,
              den |-> (sgn * b) \div g]

\* The info of a frame made by an array operation: the class attributes.
DefaultInfo == [gain |-> 1, rot90 |-> 0]

\* ccd2.copy_info(ccd): every attribute of extr_attr_list is taken from ccd.
copy_info(to, from) == [to EXCEPT !.info = from.info]

\* self / ccd1
Quotient(a, b) ==
    [data |-> [p \in Pixels |-> FloatDiv(a.data[p], b.data[p])],
     info |-> DefaultInfo]

\* CCD.subtract(self, ccd1)
subtract(a, b) == copy_info(Quotient(a, b), a)

\* CCD.devide(self, ccd1)
devide(a, b) == copy_info(Quotient(a, b), a)

Frames ==
    [data : [Pixels -> PixValues],
     info : [gain : Gains, rot90 : {0, 1}]]

CcdInit ==
    /\ pc = "ccd_call"
    /\ ccd_self \in Frames
    /\ ccd1 \in Frames
    /\ ccd2 = None
    /\ FixIdle
    /\ CorrIdle
    /\ FitIdle
    /\ PolyIdle
    /\ RefIdle
    /\ RejIdle

Subtract ==
    /\ pc = "ccd_call"
    /\ ccd2' = subtract(ccd_self, ccd1)
    /\ pc' = "sub_done"
    /\ UNCHANGED <<ccd_self, ccd1, fixvars, corrvars, fitvars, polyvars,
                   refvars, rejvars>>

Devide ==
    /\ pc = "ccd_call"
    /\ ccd2' = devide(ccd_self, ccd1)
    /\ pc' = "div_done"
    /\ UNCHANGED <<ccd_self, ccd1, fixvars, corrvars, fitvars, polyvars,
                   refvars, rejvars>>

CcdNext == Subtract \/ Devide

SpecCcd == CcdInit /\ [][CcdNext]_vars

(***************************************************************************)
(* Claims about CCD                                                        *)
(***************************************************************************)

\* a - b in float64.
FloatSub(a, b) == Num(a - b)

\* The data of self - ccd1, pixel by pixel.
Difference(a, b) == [p \in Pixels |-> FloatSub(a.data[p], b.data[p])]

\* C11: CCD.subtract(ccd1) returns the pixel-by-pixel difference self - ccd1
\* with the info of self, and CCD.devide(ccd1) the pixel-by-pixel quotient
\* with the info of self.
C11_SubtractReturnsDifference ==
    /\ pc = "sub_done" =>
          /\ ccd2.data = Difference(ccd_self, ccd1)
          /\ ccd2.info = ccd_self.info
    /\ pc = "div_done" =>
          /\ ccd2.data = Quotient(ccd_self, ccd1).data
          /\ ccd2.info = ccd_self.info

(***************************************************************************)
(* The module as a whole: one of the routines is called.                   *)
(***************************************************************************)

Init ==
    \/ FixInit
    \/ CorrInit
    \/ FitInit
    \/ PolyInit
    \/ RefInit
    \/ RejInit
    \/ CcdInit

Next ==
    \/ FixNext
    \/ CorrNext
    \/ FitNext
    \/ PolyNext
    \/ RefNext
    \/ RejNext
    \/ CcdNext

Spec == Init /\ [][Next]_vars

====
